---- MODULE Spec2Model ----
(***************************************************************************)
(* Model of the 3-day schedule of SocialBatteryForecaster:                 *)
(*   components/Schedule3Day.tsx  (layout engine, drag / drop, click)      *)
(*   App.tsx                      (event list, modals, async handlers)     *)
(*   components/Onboarding.tsx    (the questionnaire)                      *)
(*                                                                         *)
(* Units.  An instant is a whole number of minutes of local time counted   *)
(* from the local midnight that starts "today" (no DST change inside the   *)
(* three days shown).  NaN is the time value of an unparsable date string. *)
(* Pixels are counted in tenths of a pixel, so that PX_PER_MINUTE = 1.2 is *)
(* the integer 12 and the arithmetic is exact.  An impact score is counted *)
(* in quarters of a unit.                                                  *)
(***************************************************************************)
EXTENDS Integers, Sequences, FiniteSets, TLC

VARIABLES
    events,        \* Schedule3Day prop / App state: the event list
    perDay,        \* Schedule3Day render: positioned blocks of each day
    dragging,      \* Schedule3Day state: <<>> (null) or <<event>>
    dragPreview,   \* Schedule3Day state: <<>> (null) or <<DragPreview>>
    lastEvent,     \* the DOM event (or call) the last handler run answered
    calls,         \* the calls that handler run made, in order
    app,           \* App state: busy flags, modal flags and error messages
    form,          \* App state: the form of the New Event modal
    editForm,      \* App state: <<>> (null) or <<form of the Edit Event modal>>
    tasks,         \* async handler runs suspended at an await
    server,        \* the event list the backend holds
    latest,        \* <<>> or <<the list answering the getEvents issued last>>
    quiz,          \* Onboarding state: idx and answers
    score,         \* the argument handed to colorForScore
    bg             \* <<>> or <<the colour colorForScore returned for score>>

serverVars == <<server, latest>>

appVars == <<app, form, editForm, tasks, serverVars, quiz>>

colorVars == <<score, bg>>

vars == <<events, perDay, dragging, dragPreview, lastEvent, calls, appVars, colorVars>>

----------------------------------------------------------------------------
(* Bounds of the model *)

\* longest event list handed to the layout engine
MaxEvents == 3

(* Program constants *)

NaN == -1
MinutesPerDay == 1440
DAY_START_HOUR == 7
DAY_END_HOUR == 22
\* 1.2 px per minute, in tenths of a pixel
PX_PER_MINUTE == 12
\* Math.max(12, ...) px, in tenths of a pixel
MinHeightPx == 120
SnapMinutes == 15
MinDurMin == 15
\* the length of the slot a click proposes, in minutes
DefaultSlotMin == 30

None == <<>>

\* no handler has run yet
NoEvent == [type |-> "none", day |-> 0, y |-> 0, id |-> 0]

Max(a, b) == IF a >= b THEN a ELSE b
Min(a, b) == IF a <= b THEN a ELSE b

\* App.tsx line 57 (new Date()): the wall clock, in minutes, when the New
\* Event form is filled with its defaults
NowMin == 600

\* App.tsx lines 101-113: the form the New Event modal starts with.  A title
\* is a sequence of characters; a datetime-local value is <<>> for the empty
\* string and <<minutes>> otherwise
InitialForm ==
    [title |-> <<>>, startLocal |-> <<NowMin + 15>>, endLocal |-> <<NowMin + 15 + 30>>]

\* App.tsx lines 92-122: flags and messages after construction (null is
\* <<>>), once refreshMe has found a user who is signed in and onboarded.
\* me is "onboarded", "new" (signed in, not onboarded) or "anonymous".
InitialApp ==
    [me |-> "onboarded",
     loadingEvents |-> FALSE, eventsError |-> None,
     onboardingSaving |-> FALSE, onboardingError |-> None,
     showNew |-> FALSE, newSaving |-> FALSE, newError |-> None,
     showEdit |-> FALSE, editSaving |-> FALSE, editDeleting |-> FALSE,
     editError |-> None]

\* Onboarding.tsx lines 10-26: QUESTIONS.length
QuestionCount == 15

\* Onboarding.tsx lines 56-57: idx and answers of a freshly mounted Onboarding
InitialQuiz == [idx |-> 0, answers |-> [q \in 1..QuestionCount |-> 0]]

\* the list the backend holds at first
ServerEvents ==
    << [id |-> 1, start |-> 540, end |-> 600, source |-> "local"],
       [id |-> 2, start |-> 570, end |-> 630, source |-> "google"] >>

\* App has just been constructed and no handler of it runs
AppIdle ==
    /\ app = InitialApp
    /\ form = InitialForm
    /\ editForm = None
    /\ tasks = <<>>
    /\ server = ServerEvents
    /\ latest = None
    /\ quiz = InitialQuiz

\* a finite score of q quarters
Finite(q) == [kind |-> "finite", q |-> q]

\* colorForScore has not been called
ColorIdle ==
    /\ score = Finite(0)
    /\ bg = None

----------------------------------------------------------------------------
(* date / time helpers *)

isNaN(t) == t = NaN

\* new Date(y, m, d, 0, 0, 0, 0): the local midnight at or before t
startOfDay(t) == (t \div MinutesPerDay) * MinutesPerDay

addDays(t, n) == t + n * MinutesPerDay

isSameDay(a, b) == startOfDay(a) = startOfDay(b)

\* d.getHours() * 60 + d.getMinutes()
minutesFromMidnight(t) == t % MinutesPerDay

clamp(n, min, max) == Max(min, Min(max, n))

\* today, today + 1, today + 2
today == 0
days == <<today, startOfDay(addDays(today, 1)), startOfDay(addDays(today, 2))>>

totalMinutes == (DAY_END_HOUR - DAY_START_HOUR) * 60
gridHeight == totalMinutes * PX_PER_MINUTE

----------------------------------------------------------------------------
(* computePositionsForDay *)

\* faulty variant: the check of line 99 (end <= start) is missing
EligibleForDay_NoOrderCheck(ev, dayStart, dayEnd) ==
    IF isNaN(ev.start) \/ isNaN(ev.end) THEN FALSE
    ELSE ev.start < dayEnd /\ ev.end > dayStart

\* lines 94-103: events with a valid range that intersects the day
EligibleForDay(ev, dayStart, dayEnd) ==
    IF isNaN(ev.start) \/ isNaN(ev.end) THEN FALSE
    ELSE IF ev.end <= ev.start THEN FALSE
    ELSE ev.start < dayEnd /\ ev.end > dayStart

inDayOf(evs, dayStart, dayEnd) ==
    SelectSeq(evs, LAMBDA ev : EligibleForDay(ev, dayStart, dayEnd))

\* faulty variant: the sort puts an event before the earlier events of the
\* list that start at the same instant
RECURSIVE InsertByStart_Unstable(_, _)
InsertByStart_Unstable(s, ev) ==
    IF s = <<>> THEN <<ev>>
    ELSE IF s[Len(s)].start - ev.start < 0 THEN Append(s, ev)
    ELSE Append(InsertByStart_Unstable(SubSeq(s, 1, Len(s) - 1), ev), s[Len(s)])

\* line 105: Array.prototype.sort is stable; the comparator orders by start
RECURSIVE InsertByStart(_, _)
InsertByStart(s, ev) ==
    IF s = <<>> THEN <<ev>>
    ELSE IF s[Len(s)].start - ev.start <= 0 THEN Append(s, ev)
    ELSE Append(InsertByStart(SubSeq(s, 1, Len(s) - 1), ev), s[Len(s)])

RECURSIVE sortByStart(_)
sortByStart(s) ==
    IF s = <<>> THEN <<>>
    ELSE InsertByStart(sortByStart(SubSeq(s, 1, Len(s) - 1)), s[Len(s)])

\* faulty variant: an event that starts exactly at clusterEnd joins the cluster
RECURSIVE ScanCluster_Touching(_, _, _)
ScanCluster_Touching(sorted, j, clusterEnd) ==
    IF j <= Len(sorted) /\ sorted[j].start <= clusterEnd
    THEN ScanCluster_Touching(sorted, j + 1,
                     IF sorted[j].end > clusterEnd THEN sorted[j].end ELSE clusterEnd)
    ELSE j

\* lines 116-127: the inner while loop; the result is the final j
RECURSIVE ScanCluster(_, _, _)
ScanCluster(sorted, j, clusterEnd) ==
    IF j <= Len(sorted) /\ sorted[j].start < clusterEnd
    THEN ScanCluster(sorted, j + 1,
                     IF sorted[j].end > clusterEnd THEN sorted[j].end ELSE clusterEnd)
    ELSE j

\* faulty variant: line 137 takes the first column that is still busy (s < end)
FirstFreeCol_Busy(cols, s) ==
    IF \E c \in 1..Len(cols) : s < cols[c]
    THEN (CHOOSE c \in 1..Len(cols) :
              /\ s < cols[c]
              /\ \A b \in 1..(c - 1) : ~(s < cols[b])) - 1
    ELSE Len(cols)

\* faulty variant: line 137 asks for s > end, so a column is not reused by an
\* event that starts exactly when its last event ends
FirstFreeCol_Strict(cols, s) ==
    IF \E c \in 1..Len(cols) : s > cols[c]
    THEN (CHOOSE c \in 1..Len(cols) :
              /\ s > cols[c]
              /\ \A b \in 1..(c - 1) : ~(s > cols[b])) - 1
    ELSE Len(cols)

\* lines 135-138: the first column whose remembered end is <= s (0-based),
\* or cols.length when there is none
FirstFreeCol(cols, s) ==
    IF \E c \in 1..Len(cols) : s >= cols[c]
    THEN (CHOOSE c \in 1..Len(cols) :
              /\ s >= cols[c]
              /\ \A b \in 1..(c - 1) : ~(s >= cols[b])) - 1
    ELSE Len(cols)

\* lines 130-143: greedy column assignment over the cluster, event k onwards
RECURSIVE AssignColumns(_, _, _, _)
AssignColumns(cluster, k, cols, assigned) ==
    IF k > Len(cluster) THEN [cols |-> cols, assigned |-> assigned]
    ELSE LET ev == cluster[k]
             colIndex == FirstFreeCol(cols, ev.start)
             cols2 == IF colIndex = Len(cols)
                      THEN Append(cols, ev.end)
                      ELSE [cols EXCEPT ![colIndex + 1] = ev.end]
         IN  AssignColumns(cluster, k + 1, cols2,
                           Append(assigned, [ev |-> ev, colIndex |-> colIndex]))

\* faulty variant: colCount is the highest column index instead of the length
ColCountOf_LastIndex(cols) == Len(cols) - 1

\* line 145
ColCountOf(cols) == Len(cols)

\* faulty variant: a block raised to the minimum height is moved up by the
\* pixels it gained
BlockOf_Recentred(a, colCount, dayStart, dayEnd, dayStartHour, dayEndHour, pxPerMinute) ==
    LET visibleStartMin == dayStartHour * 60
        visibleEndMin == dayEndHour * 60
        clippedStart == Max(a.ev.start, dayStart)
        clippedEnd == Min(a.ev.end, dayEnd)
        topMin == clamp(minutesFromMidnight(clippedStart), visibleStartMin, visibleEndMin)
        botMin == clamp(minutesFromMidnight(clippedEnd), visibleStartMin, visibleEndMin)
        heightPxRaw == (botMin - topMin) * pxPerMinute
        heightPx == Max(MinHeightPx, heightPxRaw)
        topPx == (topMin - visibleStartMin) * pxPerMinute - (heightPx - heightPxRaw)
    IN  IF botMin <= visibleStartMin \/ topMin >= visibleEndMin THEN <<>>
        ELSE << [ev |-> a.ev, topPx |-> topPx, heightPx |-> heightPx,
                 colIndex |-> a.colIndex, colCount |-> colCount] >>

\* lines 150-179: the block of one assigned event, <<>> when it is skipped
BlockOf(a, colCount, dayStart, dayEnd, dayStartHour, dayEndHour, pxPerMinute) ==
    LET visibleStartMin == dayStartHour * 60
        visibleEndMin == dayEndHour * 60
        clippedStart == Max(a.ev.start, dayStart)
        clippedEnd == Min(a.ev.end, dayEnd)
        minutesFromMidnightStart == minutesFromMidnight(clippedStart)
        minutesFromMidnightEnd == minutesFromMidnight(clippedEnd)
        topMin == clamp(minutesFromMidnightStart, visibleStartMin, visibleEndMin)
        botMin == clamp(minutesFromMidnightEnd, visibleStartMin, visibleEndMin)
        topPx == (topMin - visibleStartMin) * pxPerMinute
        heightPxRaw == (botMin - topMin) * pxPerMinute
        heightPx == Max(MinHeightPx, heightPxRaw)
    IN  IF botMin <= visibleStartMin \/ topMin >= visibleEndMin THEN <<>>
        ELSE << [ev |-> a.ev, topPx |-> topPx, heightPx |-> heightPx,
                 colIndex |-> a.colIndex, colCount |-> colCount] >>

RECURSIVE BlocksOf(_, _, _, _, _, _, _, _)
BlocksOf(assigned, k, colCount, dayStart, dayEnd, dayStartHour, dayEndHour, pxPerMinute) ==
    IF k > Len(assigned) THEN <<>>
    ELSE BlockOf(assigned[k], colCount, dayStart, dayEnd, dayStartHour, dayEndHour, pxPerMinute)
         \o BlocksOf(assigned, k + 1, colCount, dayStart, dayEnd,
                     dayStartHour, dayEndHour, pxPerMinute)

\* faulty variant: the next pass starts one event after the scan's end
NextPass_Skip(j) == j + 1

\* line 181 (i = j): the index the next pass of the outer loop starts from
NextPass(j) == j

\* lines 109-182: the outer while loop from index i
RECURSIVE LayoutFrom(_, _, _, _, _, _, _)
LayoutFrom(sorted, i, dayStart, dayEnd, dayStartHour, dayEndHour, pxPerMinute) ==
    IF i > Len(sorted) THEN <<>>
    ELSE LET j == ScanCluster(sorted, i + 1, sorted[i].end)
             cluster == SubSeq(sorted, i, j - 1)
             res == AssignColumns(cluster, 1, <<>>, <<>>)
             colCount == ColCountOf(res.cols)
         IN  BlocksOf(res.assigned, 1, colCount, dayStart, dayEnd,
                      dayStartHour, dayEndHour, pxPerMinute)
             \o LayoutFrom(sorted, NextPass(j), dayStart, dayEnd,
                           dayStartHour, dayEndHour, pxPerMinute)

computePositionsForDay(day, evs, dayStartHour, dayEndHour, pxPerMinute) ==
    LET dayStart == startOfDay(day)
        dayEnd == addDays(dayStart, 1)
        inDay == inDayOf(evs, dayStart, dayEnd)
        sorted == sortByStart(inDay)
    IN  LayoutFrom(sorted, 1, dayStart, dayEnd, dayStartHour, dayEndHour, pxPerMinute)

\* lines 268-286: the render's per-day list and its layout
DayList(d, evs) ==
    LET dayStart == startOfDay(d)
        dayEnd == addDays(dayStart, 1)
    IN  SelectSeq(evs, LAMBDA ev :
            IF isNaN(ev.start) \/ isNaN(ev.end) THEN FALSE
            ELSE ev.start < dayEnd /\ ev.end > dayStart)

RenderPerDay(evs) ==
    [n \in 1..Len(days) |->
        [day |-> days[n],
         positioned |-> computePositionsForDay(days[n], DayList(days[n], evs),
                            DAY_START_HOUR, DAY_END_HOUR, PX_PER_MINUTE)]]

----------------------------------------------------------------------------
(* The layout specification: the event list grows one event at a time and  *)
(* every render lays the three days out again.                             *)

StartTimes == {NaN, 540, 570, 1315}
EndTimes == {NaN, 570, 600, 1320, 1920}

LayoutInit ==
    /\ events = <<>>
    /\ perDay = RenderPerDay(<<>>)
    /\ dragging = None
    /\ dragPreview = None
    /\ lastEvent = NoEvent
    /\ calls = <<>>
    /\ AppIdle
    /\ ColorIdle

\* a new event list reaches the component and it renders
AddEvent(s, e, src) ==
    /\ Len(events) < MaxEvents
    /\ events' = Append(events, [id |-> Len(events) + 1, start |-> s, end |-> e, source |-> src])
    /\ perDay' = RenderPerDay(events')
    /\ lastEvent' = [type |-> "render", day |-> 0, y |-> 0, id |-> Len(events')]
    /\ calls' = <<>>
    /\ UNCHANGED <<dragging, dragPreview>>
    /\ UNCHANGED <<appVars, colorVars>>

LayoutNext ==
    \E s \in StartTimes, e \in EndTimes : AddEvent(s, e, "local")

LayoutSpec == LayoutInit /\ [][LayoutNext]_vars

(* The same renders over events that follow one another closely: a         *)
(* 5-minute event, events that start when it ends or shortly after, and an *)
(* event that overlaps them.                                               *)
CloseShapes ==
    { [start |-> 540, end |-> 545], [start |-> 545, end |-> 600],
      [start |-> 548, end |-> 600], [start |-> 540, end |-> 600],
      [start |-> 600, end |-> 660] }

CloseNext ==
    \E sh \in CloseShapes : AddEvent(sh.start, sh.end, "local")

CloseSpec == LayoutInit /\ [][CloseNext]_vars

----------------------------------------------------------------------------
(* Drag and drop: computePreviewForPointer and the handlers of the day     *)
(* columns and of the event blocks.  A pointer position y is               *)
(* clientY - rect.top, in tenths of a pixel.                               *)

\* Math.round(a / b) for b > 0: the nearest integer, halves rounded up
RoundDiv(a, b) == (2 * a + b) \div (2 * b)

\* faulty variant: the snap truncates to the 15-minute boundary below
snappedFor_Floor(y) ==
    LET minutesFromVisibleStart == clamp(RoundDiv(y, PX_PER_MINUTE), 0, totalMinutes)
        dayMinutes == DAY_START_HOUR * 60 + minutesFromVisibleStart
    IN  (dayMinutes \div SnapMinutes) * SnapMinutes

\* lines 312-314: the snapped start, in minutes from local midnight
snappedFor(y) ==
    LET minutesFromVisibleStart == clamp(RoundDiv(y, PX_PER_MINUTE), 0, totalMinutes)
        dayMinutes == DAY_START_HOUR * 60 + minutesFromVisibleStart
    IN  RoundDiv(dayMinutes, SnapMinutes) * SnapMinutes

\* faulty variant: the floor of 15 minutes is missing
durMinOf_NoFloor(dragged) == RoundDiv(dragged.end - dragged.start, 1)

\* lines 320-323: the duration of the candidate, in minutes
durMinOf(dragged) ==
    LET durMinRaw == RoundDiv(dragged.end - dragged.start, 1)
    IN  Max(MinDurMin, durMinRaw)

\* faulty variant: the end of the candidate must lie strictly before the window's end
previewValid_Strict(snapped, durMin) ==
    snapped >= DAY_START_HOUR * 60 /\ snapped + durMin < DAY_END_HOUR * 60

\* faulty variant: only the start of the candidate is tested
previewValid_StartOnly(snapped, durMin) ==
    snapped >= DAY_START_HOUR * 60 /\ snapped <= DAY_END_HOUR * 60

\* line 333
previewValid(snapped, durMin) ==
    snapped >= DAY_START_HOUR * 60 /\ snapped + durMin <= DAY_END_HOUR * 60

\* lines 308-336 (score and label, which only colour the ghost, are left out)
computePreviewForPointer(day, y, dragged) ==
    LET snapped == snappedFor(y)
        start == startOfDay(day) + snapped
        durMin == durMinOf(dragged)
        end == start + durMin
        topPx == (snapped - DAY_START_HOUR * 60) * PX_PER_MINUTE
        heightPx == Max(MinHeightPx, durMin * PX_PER_MINUTE)
    IN  [day |-> day, topPx |-> topPx, heightPx |-> heightPx,
         start |-> start, end |-> end, valid |-> previewValid(snapped, durMin)]

\* faulty variant: no event counts as read-only
isReadOnly_Never(ev) == FALSE

\* line 438
isReadOnly(ev) == ev.source = "google"

\* App.tsx handleMoveEvent up to its first await: the requests it issues
handleMoveEvent(id, start, end) ==
    LET hits == {k \in 1..Len(events) : events[k].id = id}
    IN  IF hits = {} THEN <<>>
        ELSE LET ev == events[CHOOSE k \in hits : \A h \in hits : k <= h]
             IN  IF ev.source = "google" THEN <<>>
                 ELSE << [fn |-> "updateEvent", id |-> id, start |-> start, end |-> end] >>

\* faulty variant: the check of line 384 (the candidate's valid flag) is missing
dropReturnsEarly_NoValidCheck(drg, prev) ==
    \/ drg = None \/ prev = None
    \/ drg[1].source = "google"

\* lines 381-384: the early returns of onDrop
dropReturnsEarly(drg, prev) ==
    \/ drg = None \/ prev = None
    \/ drg[1].source = "google"
    \/ ~prev[1].valid

\* lines 452-457: onDragStart of block k of day n
DragStart(n, k) ==
    /\ k \in 1..Len(perDay[n].positioned)
    /\ LET p == perDay[n].positioned[k]
       IN  /\ lastEvent' = [type |-> "dragStart", day |-> days[n], y |-> 0, id |-> p.ev.id]
           /\ dragging' = IF isReadOnly(p.ev) THEN dragging ELSE <<p.ev>>
    /\ calls' = <<>>
    /\ UNCHANGED <<events, perDay, dragPreview>>
    /\ UNCHANGED <<appVars, colorVars>>

\* lines 374-379: onDragOver of the column of day n
DragOver(n, y) ==
    /\ lastEvent' = [type |-> "dragOver", day |-> days[n], y |-> y, id |-> 0]
    /\ dragPreview' = IF dragging = None THEN dragPreview
                      ELSE <<computePreviewForPointer(days[n], y, dragging[1])>>
    /\ calls' = <<>>
    /\ UNCHANGED <<events, perDay, dragging>>
    /\ UNCHANGED <<appVars, colorVars>>

\* lines 380-389: onDrop of the column of day n, with the synchronous part
\* of the onMoveEvent callback (App.tsx handleMoveEvent)
Drop(n) ==
    /\ lastEvent' = [type |-> "drop", day |-> days[n], y |-> 0, id |-> 0]
    /\ IF dropReturnsEarly(dragging, dragPreview)
       THEN /\ calls' = <<>>
            /\ UNCHANGED <<dragging, dragPreview>>
       ELSE /\ calls' = << [fn |-> "onMoveEvent", id |-> dragging[1].id,
                            start |-> dragPreview[1].start, end |-> dragPreview[1].end] >>
                        \o handleMoveEvent(dragging[1].id, dragPreview[1].start,
                                           dragPreview[1].end)
            /\ dragging' = None
            /\ dragPreview' = None
    /\ UNCHANGED <<events, perDay>>
    /\ UNCHANGED <<appVars, colorVars>>

\* faulty variant: onDragEnd forgets the candidate
DragEnd_KeepsPreview ==
    /\ lastEvent' = [type |-> "dragEnd", day |-> 0, y |-> 0, id |-> 0]
    /\ dragging' = None
    /\ calls' = <<>>
    /\ UNCHANGED <<events, perDay, dragPreview>>
    /\ UNCHANGED <<appVars, colorVars>>

\* lines 458-461: onDragEnd of a block
DragEnd ==
    /\ lastEvent' = [type |-> "dragEnd", day |-> 0, y |-> 0, id |-> 0]
    /\ dragging' = None
    /\ dragPreview' = None
    /\ calls' = <<>>
    /\ UNCHANGED <<events, perDay>>
    /\ UNCHANGED <<appVars, colorVars>>

\* faulty variant: the click truncates to the 15-minute boundary below
clickSnapped_Floor(y) ==
    LET minutesFromVisibleStart == clamp(RoundDiv(y, PX_PER_MINUTE), 0, totalMinutes)
        dayMinutes == DAY_START_HOUR * 60 + minutesFromVisibleStart
    IN  (dayMinutes \div SnapMinutes) * SnapMinutes

\* lines 295-297: the snapped start of a click, in minutes from local midnight
clickSnapped(y) ==
    LET minutesFromVisibleStart == clamp(RoundDiv(y, PX_PER_MINUTE), 0, totalMinutes)
        dayMinutes == DAY_START_HOUR * 60 + minutesFromVisibleStart
    IN  RoundDiv(dayMinutes, SnapMinutes) * SnapMinutes

\* lines 288-306: the slot handleDayClick proposes for a click at y on empty
\* space of the column of the day
handleDayClick(day, y) ==
    LET start == startOfDay(day) + clickSnapped(y)
        end == start + DefaultSlotMin
    IN  << [fn |-> "onCreateAt", id |-> 0, start |-> start, end |-> end] >>

\* the block of day n that lies under a pointer at height y can be the
\* target of a click there (lines 441-451: top and height of the block)
BlockUnder(n, k, y) ==
    /\ k \in 1..Len(perDay[n].positioned)
    /\ perDay[n].positioned[k].topPx <= y
    /\ y < perDay[n].positioned[k].topPx + perDay[n].positioned[k].heightPx

\* a click at height y of the column of day n.  target = 0: the click hits
\* empty space; target = k > 0: it hits the button of block k, whose onClick
\* (line 463) opens the editor, and bubbles to the column, where line 290
\* returns early.
DayClick(n, y, target) ==
    /\ target = 0 \/ BlockUnder(n, target, y)
    /\ lastEvent' = [type |-> "click", day |-> days[n], y |-> y,
                     id |-> IF target = 0 THEN 0 ELSE perDay[n].positioned[target].ev.id]
    /\ calls' = IF target = 0 THEN handleDayClick(days[n], y)
                ELSE LET ev == perDay[n].positioned[target].ev
                     IN  << [fn |-> "onEditEvent", id |-> ev.id,
                             start |-> ev.start, end |-> ev.end] >>
    /\ UNCHANGED <<events, perDay, dragging, dragPreview>>
    /\ UNCHANGED <<appVars, colorVars>>

\* a call of handleMoveEvent by any holder of the callback
MoveEventCall(id, start, end) ==
    /\ lastEvent' = [type |-> "moveCall", day |-> start, y |-> end, id |-> id]
    /\ calls' = handleMoveEvent(id, start, end)
    /\ UNCHANGED <<events, perDay, dragging, dragPreview>>
    /\ UNCHANGED <<appVars, colorVars>>

(* The drag specification: a list of two events is shown and the handlers  *)
(* run in any order with any pointer position.                             *)

DragShapes ==
    { [start |-> 540, end |-> 600, source |-> "local"],
      [start |-> 570, end |-> 630, source |-> "google"],
      [start |-> 1260, end |-> 1265, source |-> "local"],
      [start |-> 1275, end |-> 1320, source |-> "local"] }

PointerYs == {-600, 84, 96, 10080, 10260, 10440, 12000}

\* a click reaches a column only at a height inside it
ClickYs == {y \in PointerYs : 0 <= y /\ y <= gridHeight}

WithId(shape, id) ==
    [id |-> id, start |-> shape.start, end |-> shape.end, source |-> shape.source]

DragInit ==
    /\ \E a, b \in DragShapes : events = <<WithId(a, 1), WithId(b, 2)>>
    /\ perDay = RenderPerDay(events)
    /\ dragging = None
    /\ dragPreview = None
    /\ lastEvent = NoEvent
    /\ calls = <<>>
    /\ AppIdle
    /\ ColorIdle

DragNext ==
    \/ \E n \in 1..Len(days) : \E k \in 1..Len(events) : DragStart(n, k)
    \/ \E n \in 1..Len(days) : \E y \in PointerYs : DragOver(n, y)
    \/ \E n \in 1..Len(days) : Drop(n)
    \/ DragEnd
    \/ \E n \in 1..Len(days) : \E y \in ClickYs :
           \E target \in 0..Len(perDay[n].positioned) : DayClick(n, y, target)
    \/ \E k \in 1..Len(events) : \E n \in 1..Len(days) : \E y \in PointerYs :
           LET c == computePreviewForPointer(days[n], y, events[k])
           IN  MoveEventCall(events[k].id, c.start, c.end)

DragSpec == DragInit /\ [][DragNext]_vars

----------------------------------------------------------------------------
(* colorForScore.  A score is [kind, q]: kind "finite" with q quarters of  *)
(* a unit, or one of the non-finite numbers.  The fractions t and tt are   *)
(* numerators over TDen, so that every value below is exact.               *)

\* quarters per unit of score
ScoreDen == 4

\* lines 59-60
MIN == -15
MAX == 15

\* the denominator of t = (s - MIN) / (MAX - MIN) for s in quarters
TDen == (MAX - MIN) * ScoreDen

\* lines 63-65
red == <<180, 50, 60>>
mid == <<35, 45, 65>>
green == <<35, 160, 110>>

\* Number.isFinite (line 57)
isFinite(x) == x.kind = "finite"

\* faulty variant: t is not clamped to [0, 1]
clamp01_Identity(x) == x

\* lines 37-39, on numerators over TDen (1 is TDen / TDen)
clamp01(x) == Max(0, Min(TDen, x))

\* lines 40-42: a + (b - a) * t for t = tt / TDen, as a numerator over TDen
lerp(a, b, tt) == a * TDen + (b - a) * tt

\* lines 43-45
mixRgb(a, b, tt) ==
    << RoundDiv(lerp(a[1], b[1], tt), TDen),
       RoundDiv(lerp(a[2], b[2], tt), TDen),
       RoundDiv(lerp(a[3], b[3], tt), TDen) >>

\* lines 46-48: the string "rgb(r g b)", as its prefix and its three numbers
rgbToCss(rgb) == <<"rgb(", rgb[1], rgb[2], rgb[3]>>

\* lines 56-74
colorForScore(sc) ==
    LET s == IF isFinite(sc) THEN sc.q ELSE 0
        t == clamp01(s - MIN * ScoreDen)
    IN  IF 2 * t < TDen
        THEN rgbToCss(mixRgb(red, mid, 2 * t))
        ELSE rgbToCss(mixRgb(mid, green, 2 * t - TDen))

\* largest magnitude of a finite score tried, in units
MaxScore == 20

Scores ==
    {Finite(q) : q \in (-MaxScore * ScoreDen)..(MaxScore * ScoreDen)}
        \cup {[kind |-> k, q |-> 0] : k \in {"NaN", "Infinity", "-Infinity"}}

ColorInit ==
    /\ events = <<>>
    /\ perDay = RenderPerDay(events)
    /\ dragging = None
    /\ dragPreview = None
    /\ lastEvent = NoEvent
    /\ calls = <<>>
    /\ AppIdle
    /\ score \in Scores
    /\ bg = None

\* line 192: a block (or the ghost, line 418) asks for the colour of score
PaintScore ==
    /\ bg = None
    /\ bg' = <<colorForScore(score)>>
    /\ lastEvent' = [type |-> "paint", day |-> 0, y |-> 0, id |-> 0]
    /\ UNCHANGED <<events, perDay, dragging, dragPreview, calls, appVars, score>>

ColorNext == PaintScore

ColorSpec == ColorInit /\ [][ColorNext]_vars

----------------------------------------------------------------------------
(* App.tsx: the event list, the two modals and the async handlers.  A      *)
(* handler that awaits a request is suspended as a task; Settle resumes it *)
(* with the outcome of the request and runs it to its next await or to its *)
(* end.  The contents of an enabled input are whatever the user typed, so  *)
(* they come with the submit that reads them.                              *)

\* most handler runs suspended at one time
MaxTasks == 1

\* api.ts: a request; fields are the keys of the JSON body
Request(fn, id, fields) == [fn |-> fn, id |-> id, fields |-> fields]

\* the message of the Error a request rejects with ("": it carries none)
Messages == {"", "HTTP 500"}

Outcomes ==
    {[ok |-> TRUE, message |-> ""]} \cup {[ok |-> FALSE, message |-> m] : m \in Messages}

\* e?.message || fallback
messageOr(msg, fallback) == IF msg = "" THEN fallback ELSE msg

\* an event of App, as lastEvent
AppEvent(type, h, id, failed) ==
    [type |-> type, day |-> 0, y |-> 0, id |-> id, h |-> h, failed |-> failed]

\* a suspended run of handler h for event id, awaiting request fn; failed is
\* <<message>> once the run's mutation request has rejected; resp is <<>> or
\* <<the list the backend answers the run's getEvents with>>
Task(h, fn, id, failed, resp) ==
    [h |-> h, await |-> fn, id |-> id, failed |-> failed, resp |-> resp]

\* String.prototype.trim on a sequence of characters
RECURSIVE trimStart(_)
trimStart(t) == IF t # <<>> /\ Head(t) = " " THEN trimStart(Tail(t)) ELSE t

RECURSIVE trimEnd(_)
trimEnd(t) ==
    IF t # <<>> /\ t[Len(t)] = " " THEN trimEnd(SubSeq(t, 1, Len(t) - 1)) ELSE t

trim(t) == trimEnd(trimStart(t))

\* minutes the local zone is ahead of UTC
UtcOffsetMin == 60

\* lines 39-43: the UTC instant of a datetime-local value
toIsoWithLocalOffset(dtLocal) == dtLocal[1] - UtcOffsetMin

\* lines 66-81: the edit form of an event (times in local minutes)
eventToEditForm(ev) ==
    [id |-> ev.id, title |-> <<"e">>, startLocal |-> <<ev.start>>,
     endLocal |-> <<ev.end>>, source |-> ev.source]

\* lines 134-136: loadEvents up to its await
loadEventsBegin(a) == [a EXCEPT !.loadingEvents = TRUE, !.eventsError = None]

\* lines 137-144: loadEvents after its await
loadEventsEnd(a, outcome) ==
    IF outcome.ok THEN [a EXCEPT !.loadingEvents = FALSE]
    ELSE [a EXCEPT !.eventsError = <<messageOr(outcome.message, "Failed to fetch")>>,
                   !.loadingEvents = FALSE]

\* lines 138 and 140: the list loadEvents stores
eventsAfterLoad(outcome, resp) == IF outcome.ok THEN resp[1] ELSE <<>>

\* faulty variant: an end equal to the start is accepted
newValidation_Strict(f) ==
    IF trim(f.title) = <<>> THEN <<"Title is required.">>
    ELSE IF f.startLocal = <<>> \/ f.endLocal = <<>>
         THEN <<"Start and end are required.">>
    ELSE IF toIsoWithLocalOffset(f.endLocal) < toIsoWithLocalOffset(f.startLocal)
         THEN <<"End must be after start.">>
    ELSE <<>>

\* lines 234-243: the message submitNewEvent refuses the form with, or <<>>
newValidation(f) ==
    IF trim(f.title) = <<>> THEN <<"Title is required.">>
    ELSE IF f.startLocal = <<>> \/ f.endLocal = <<>>
         THEN <<"Start and end are required.">>
    ELSE IF toIsoWithLocalOffset(f.endLocal) <= toIsoWithLocalOffset(f.startLocal)
         THEN <<"End must be after start.">>
    ELSE <<>>

\* lines 284-299: the message submitEditEvent refuses the form with, or <<>>
editValidation(f) ==
    IF f.source = "google" THEN <<>> ELSE newValidation(f)

\* faulty variant: every edit is saved through updateEvent
editRequest_AlwaysUpdate(f) ==
    Request("updateEvent", f.id,
            {"title", "start", "end", "event_type", "attendee_count", "has_video"})

\* lines 303-320: the request submitEditEvent sends
editRequest(f) ==
    IF f.source = "google"
    THEN Request("updateGoogleOverride", f.id, {"event_type", "attendee_count", "has_video"})
    ELSE Request("updateEvent", f.id,
                 {"title", "start", "end", "event_type", "attendee_count", "has_video"})

\* line 335
GoogleDeleteMessage ==
    "Google events can't be deleted here. (You can delete local events only.)"

\* the catch block of handler h (lines 258, 324, 349, 195-196, 170-171)
catchOf(h, a, msg) ==
    CASE h = "create" -> [a EXCEPT !.newError = <<messageOr(msg, "Failed to create event.")>>]
      [] h = "edit" -> [a EXCEPT !.editError = <<messageOr(msg, "Failed to update event.")>>]
      [] h = "delete" -> [a EXCEPT !.editError = <<messageOr(msg, "Failed to delete event.")>>]
      [] h = "sync" -> [a EXCEPT !.eventsError = <<messageOr(msg, "Failed to sync Google")>>]
      [] h = "onboarding" ->
             [a EXCEPT !.onboardingError = <<messageOr(msg, "Couldn't save onboarding.")>>]

\* faulty variant: handleDeleteEvent has no finally block
finallyOf_DeleteStaysBusy(h, a) ==
    CASE h = "create" -> [a EXCEPT !.newSaving = FALSE]
      [] h = "edit" -> [a EXCEPT !.editSaving = FALSE]
      [] h = "delete" -> a
      [] h \in {"move", "sync"} -> [a EXCEPT !.loadingEvents = FALSE]
      [] h = "onboarding" -> [a EXCEPT !.onboardingSaving = FALSE]
      [] h = "load" -> a

\* the finally block of handler h (lines 260, 326, 351, 370, 197-198, 172-173); loadEvents
\* called on its own has none
finallyOf(h, a) ==
    CASE h = "create" -> [a EXCEPT !.newSaving = FALSE]
      [] h = "edit" -> [a EXCEPT !.editSaving = FALSE]
      [] h = "delete" -> [a EXCEPT !.editDeleting = FALSE]
      [] h \in {"move", "sync"} -> [a EXCEPT !.loadingEvents = FALSE]
      [] h = "onboarding" -> [a EXCEPT !.onboardingSaving = FALSE]
      [] h = "load" -> a

\* what handler h does between its mutation request and its call of
\* loadEvents (lines 256, 321-322, 346-347)
afterMutation(h, a) ==
    CASE h = "create" -> [a EXCEPT !.showNew = FALSE]
      [] h \in {"edit", "delete"} -> [a EXCEPT !.showEdit = FALSE]
      [] h \in {"move", "sync"} -> a

\* the Schedule3Day component is mounted (lines 799-807)
ScheduleMounted == ~(events = <<>> /\ app.eventsError = None)

\* the variables no handler of App writes
AppFrame == UNCHANGED <<dragging, dragPreview, colorVars, server, quiz>>

(* The values the user can have typed into a form *)
NewForms ==
    { [title |-> <<"a">>, startLocal |-> <<615>>, endLocal |-> <<645>>],
      [title |-> <<" ">>, startLocal |-> <<615>>, endLocal |-> <<645>>],
      [title |-> <<"a">>, startLocal |-> <<615>>, endLocal |-> <<>>],
      [title |-> <<"a">>, startLocal |-> <<615>>, endLocal |-> <<615>>] }

\* the forms a user can turn the edit form f into: every input of a local
\* event is enabled, title and times of a google event are not (lines 637-662)
EditForms(f) ==
    IF f.source = "google" THEN {f}
    ELSE { f,
           [f EXCEPT !.title = <<" ", " ">>],
           [f EXCEPT !.endLocal = <<>>],
           [f EXCEPT !.endLocal = f.startLocal] }

\* lines 133-145: loadEvents called on its own (the Refresh button, the
\* refresh-events listener, the effect of lines 153-157), up to its await,
\* while fewer than cap handler runs are suspended
LoadEventsAmong(cap) ==
    /\ Len(tasks) < cap
    /\ app' = loadEventsBegin(app)
    /\ tasks' = Append(tasks, Task("load", "getEvents", 0, None, <<server>>))
    /\ latest' = <<server>>
    /\ calls' = <<Request("getEvents", 0, {})>>
    /\ lastEvent' = AppEvent("loadEvents", "load", 0, None)
    /\ UNCHANGED <<events, perDay, form, editForm>>
    /\ AppFrame

LoadEvents == LoadEventsAmong(MaxTasks)

\* lines 189-200 up to the await: handleSyncGoogle (the Sync Google button,
\* disabled while loadingEvents, line 462)
HandleSyncGoogleAmong(cap) ==
    /\ ~app.loadingEvents
    /\ Len(tasks) < cap
    /\ app' = [app EXCEPT !.loadingEvents = TRUE, !.eventsError = None]
    /\ tasks' = Append(tasks, Task("sync", "syncGoogle", 0, None, None))
    /\ calls' = <<Request("syncGoogle", 0, {})>>
    /\ lastEvent' = AppEvent("syncGoogle", "sync", 0, None)
    /\ UNCHANGED <<events, perDay, form, editForm, latest>>
    /\ AppFrame

\* lines 202-228: openNewEvent (button, disabled while loadingEvents) and
\* openNewAtSlot (a click on empty space of the schedule)
OpenNew ==
    /\ ~app.loadingEvents \/ ScheduleMounted
    /\ app' = [app EXCEPT !.newError = None, !.showNew = TRUE]
    /\ form' = InitialForm
    /\ calls' = <<>>
    /\ lastEvent' = AppEvent("openNew", "create", 0, None)
    /\ UNCHANGED <<events, perDay, editForm, tasks, latest>>
    /\ AppFrame

\* lines 488 and 497: the backdrop and the Close button of the New Event modal
CloseNew ==
    /\ app.showNew
    /\ app' = IF app.newSaving THEN app ELSE [app EXCEPT !.showNew = FALSE]
    /\ calls' = <<>>
    /\ lastEvent' = AppEvent("closeNew", "create", 0, None)
    /\ UNCHANGED <<events, perDay, form, editForm, tasks, latest>>
    /\ AppFrame

\* lines 230-263 up to the await: submitNewEvent on the form f the user typed
\* (the submit button is disabled while newSaving, line 594)
SubmitNewEvent(f) ==
    /\ app.showNew /\ ~app.newSaving
    /\ form' = f
    /\ lastEvent' = AppEvent("submitNew", "create", 0, None)
    /\ IF newValidation(f) # <<>>
       THEN /\ app' = [app EXCEPT !.newError = newValidation(f)]
            /\ calls' = <<>>
            /\ UNCHANGED tasks
       ELSE /\ Len(tasks) < MaxTasks
            /\ app' = [app EXCEPT !.newError = None, !.newSaving = TRUE]
            /\ calls' = << Request("createEvent", 0,
                             {"title", "start", "end", "event_type",
                              "attendee_count", "has_video"}) >>
            /\ tasks' = Append(tasks, Task("create", "createEvent", 0, None, None))
    /\ UNCHANGED <<events, perDay, editForm, latest>>
    /\ AppFrame

\* lines 265-269: openEditEvent, from a click on the block of events[k]
OpenEdit(k) ==
    /\ k \in 1..Len(events)
    /\ app' = [app EXCEPT !.editError = None, !.showEdit = TRUE]
    /\ editForm' = <<eventToEditForm(events[k])>>
    /\ calls' = <<>>
    /\ lastEvent' = AppEvent("openEdit", "edit", events[k].id, None)
    /\ UNCHANGED <<events, perDay, form, tasks, latest>>
    /\ AppFrame

\* lines 271-276: closeEdit (the backdrop of the modal is never disabled)
CloseEdit ==
    /\ app.showEdit /\ editForm # None
    /\ lastEvent' = AppEvent("closeEdit", "edit", editForm[1].id, None)
    /\ IF app.editSaving \/ app.editDeleting
       THEN UNCHANGED <<app, editForm>>
       ELSE /\ app' = [app EXCEPT !.showEdit = FALSE, !.editError = None]
            /\ editForm' = None
    /\ calls' = <<>>
    /\ UNCHANGED <<events, perDay, form, tasks, latest>>
    /\ AppFrame

\* lines 278-329 up to the await: submitEditEvent on the form f the user
\* turned the edit form into (submit is disabled while saving or deleting,
\* line 737)
SubmitEditEvent(f) ==
    /\ app.showEdit /\ editForm # None
    /\ ~(app.editSaving \/ app.editDeleting)
    /\ f \in EditForms(editForm[1])
    /\ editForm' = <<f>>
    /\ lastEvent' = AppEvent("submitEdit", "edit", f.id, None)
    /\ IF editValidation(f) # <<>>
       THEN /\ app' = [app EXCEPT !.editError = editValidation(f)]
            /\ calls' = <<>>
            /\ UNCHANGED tasks
       ELSE /\ Len(tasks) < MaxTasks
            /\ app' = [app EXCEPT !.editError = None, !.editSaving = TRUE]
            /\ calls' = <<editRequest(f)>>
            /\ tasks' = Append(tasks, Task("edit", editRequest(f).fn, f.id, None, None))
    /\ UNCHANGED <<events, perDay, form, latest>>
    /\ AppFrame

\* lines 331-354 up to the await: handleDeleteEvent; ok is the answer to
\* window.confirm.  The Delete button is disabled while saving or deleting
\* and also for a google event (line 723); the handler's own test of lines
\* 334-337 is modelled for a call that reaches it all the same.
HandleDeleteEvent(ok) ==
    /\ app.showEdit /\ editForm # None
    /\ ~(app.editSaving \/ app.editDeleting)
    /\ lastEvent' = AppEvent("deleteEvent", "delete", editForm[1].id, None)
    /\ IF editForm[1].source = "google"
       THEN /\ app' = [app EXCEPT !.editError = <<GoogleDeleteMessage>>]
            /\ calls' = <<>>
            /\ UNCHANGED tasks
       ELSE IF ~ok
       THEN /\ calls' = <<>>
            /\ UNCHANGED <<app, tasks>>
       ELSE /\ Len(tasks) < MaxTasks
            /\ app' = [app EXCEPT !.editDeleting = TRUE, !.editError = None]
            /\ calls' = <<Request("deleteEvent", editForm[1].id, {})>>
            /\ tasks' = Append(tasks, Task("delete", "deleteEvent", editForm[1].id, None, None))
    /\ UNCHANGED <<events, perDay, form, editForm, latest>>
    /\ AppFrame

\* lines 357-373 up to the await: handleMoveEvent, called by a drop, while
\* fewer than cap handler runs are suspended
MoveEventAmong(cap, id, start, end) ==
    /\ ScheduleMounted
    /\ lastEvent' = AppEvent("moveEvent", "move", id, None)
    /\ calls' = handleMoveEvent(id, start, end)
    /\ IF handleMoveEvent(id, start, end) = <<>>
       THEN UNCHANGED <<app, tasks>>
       ELSE /\ Len(tasks) < cap
            /\ app' = [app EXCEPT !.loadingEvents = TRUE]
            /\ tasks' = Append(tasks, Task("move", "updateEvent", id, None, None))
    /\ UNCHANGED <<events, perDay, form, editForm, latest>>
    /\ AppFrame

MoveEvent(id, start, end) == MoveEventAmong(MaxTasks, id, start, end)

\* the request task i awaits settles with the outcome, and the handler runs
\* on to its next await or to its end
SettleRun(i, outcome) ==
    /\ i \in 1..Len(tasks)
    /\ LET t == tasks[i]
           rest == SubSeq(tasks, 1, i - 1) \o SubSeq(tasks, i + 1, Len(tasks))
       IN  IF t.h = "onboarding" /\ t.await = "submitOnboarding" /\ outcome.ok
           THEN \* lines 167-168: the answers are saved and refreshMe starts
                /\ tasks' = [tasks EXCEPT ![i].await = "getMe"]
                /\ calls' = <<Request("getMe", 0, {})>>
                /\ lastEvent' = AppEvent("resolved", t.h, t.id, None)
                /\ UNCHANGED <<app, events, editForm, latest>>
           ELSE IF t.await = "getMe"
           THEN \* lines 124-131 and 169: refreshMe stores the user, or an
                \* anonymous one when getMe rejects, and loadEvents starts
                /\ app' = loadEventsBegin(
                              [app EXCEPT !.me = IF outcome.ok THEN "onboarded"
                                                 ELSE "anonymous"])
                /\ tasks' = [tasks EXCEPT ![i].await = "getEvents", ![i].resp = <<server>>]
                /\ latest' = <<server>>
                /\ calls' = <<Request("getEvents", 0, {})>>
                /\ lastEvent' = AppEvent("refreshed", t.h, t.id, None)
                /\ UNCHANGED <<events, editForm>>
           ELSE IF t.await = "getEvents"
           THEN \* loadEvents ends (lines 137-144), then the handler's finally
                /\ events' = eventsAfterLoad(outcome, t.resp)
                /\ app' = finallyOf(t.h, loadEventsEnd(app, outcome))
                /\ tasks' = rest
                /\ calls' = <<>>
                /\ lastEvent' = AppEvent("finish", t.h, t.id, t.failed)
                /\ UNCHANGED <<editForm, latest>>
           ELSE IF outcome.ok
           THEN \* the mutation is done: the modal closes and loadEvents starts
                /\ app' = loadEventsBegin(afterMutation(t.h, app))
                /\ editForm' = IF t.h \in {"edit", "delete"} THEN None ELSE editForm
                /\ tasks' = [tasks EXCEPT ![i].await = "getEvents", ![i].resp = <<server>>]
                /\ latest' = <<server>>
                /\ calls' = <<Request("getEvents", 0, {})>>
                /\ lastEvent' = AppEvent("resolved", t.h, t.id, None)
                /\ UNCHANGED events
           ELSE IF t.h = "move"
           THEN \* lines 367-369: the catch of handleMoveEvent calls loadEvents
                /\ app' = loadEventsBegin(
                              [app EXCEPT !.eventsError =
                                  <<messageOr(outcome.message, "Failed to move event.")>>])
                /\ tasks' = [tasks EXCEPT ![i].await = "getEvents",
                                          ![i].failed = <<outcome.message>>,
                                          ![i].resp = <<server>>]
                /\ latest' = <<server>>
                /\ calls' = <<Request("getEvents", 0, {})>>
                /\ lastEvent' = AppEvent("rejected", t.h, t.id, <<outcome.message>>)
                /\ UNCHANGED <<events, editForm>>
           ELSE \* catch and finally of submitNewEvent, submitEditEvent,
                \* handleDeleteEvent
                /\ app' = finallyOf(t.h, catchOf(t.h, app, outcome.message))
                /\ tasks' = rest
                /\ calls' = <<>>
                /\ lastEvent' = AppEvent("finish", t.h, t.id, <<outcome.message>>)
                /\ UNCHANGED <<events, editForm, latest>>
    /\ UNCHANGED form
    \* App.tsx lines 376 and 402: Onboarding is unmounted once me is no longer a new user
    /\ quiz' = IF tasks[i].await = "getMe" THEN InitialQuiz ELSE quiz
    /\ UNCHANGED <<dragging, dragPreview, colorVars, server>>

\* a settled request, with the render of the list the run has stored
Settle(i, outcome) ==
    /\ SettleRun(i, outcome)
    /\ perDay' = RenderPerDay(events')

\* the instants a drop can move an event to
MoveTargets == {<<600, 660>>}

AppInit ==
    /\ events = <<>>
    /\ perDay = RenderPerDay(events)
    /\ dragging = None
    /\ dragPreview = None
    /\ lastEvent = NoEvent
    /\ calls = <<>>
    /\ AppIdle
    /\ ColorIdle

AppNext ==
    \/ LoadEvents
    \/ OpenNew
    \/ CloseNew
    \/ \E f \in NewForms : SubmitNewEvent(f)
    \/ \E k \in 1..Len(events) : OpenEdit(k)
    \/ CloseEdit
    \/ \E f \in (IF editForm = None THEN {} ELSE EditForms(editForm[1])) :
           SubmitEditEvent(f)
    \/ \E ok \in BOOLEAN : HandleDeleteEvent(ok)
    \/ \E k \in 1..Len(events) : \E m \in MoveTargets : MoveEvent(events[k].id, m[1], m[2])
    \/ \E i \in 1..MaxTasks : \E outcome \in Outcomes : Settle(i, outcome)

AppSpec == AppInit /\ [][AppNext]_vars

(* The load specification: loadEvents, handleSyncGoogle and handleMoveEvent *)
(* run while other runs of them are suspended, and the backend's list      *)
(* changes between the requests.                                           *)

\* most handler runs suspended at one time under LoadSpec
MaxLoads == 2

\* the list the backend holds once event 1 has been moved
ServerEventsMoved ==
    << [id |-> 1, start |-> 600, end |-> 660, source |-> "local"],
       [id |-> 2, start |-> 570, end |-> 630, source |-> "google"] >>

ServerLists == {ServerEvents, ServerEventsMoved}

\* the backend applies a request and holds another list from now on
ServerChange ==
    /\ \E l \in ServerLists \ {server} : server' = l
    /\ lastEvent' = AppEvent("serverChange", "none", 0, None)
    /\ calls' = <<>>
    /\ UNCHANGED <<events, perDay, dragging, dragPreview, colorVars>>
    /\ UNCHANGED <<app, form, editForm, tasks, latest, quiz>>

\* a request rejects with one message under LoadSpec
LoadOutcomes == {[ok |-> TRUE, message |-> ""], [ok |-> FALSE, message |-> "HTTP 500"]}

LoadNext ==
    \/ LoadEventsAmong(MaxLoads)
    \/ HandleSyncGoogleAmong(MaxLoads)
    \/ \E k \in 1..Len(events) : \E m \in MoveTargets :
           MoveEventAmong(MaxLoads, events[k].id, m[1], m[2])
    \/ \E i \in 1..MaxLoads : \E outcome \in LoadOutcomes : Settle(i, outcome)
    \/ ServerChange

LoadSpec == AppInit /\ [][LoadNext]_vars

----------------------------------------------------------------------------
(* Onboarding.tsx: the questionnaire shown to a user who is signed in and  *)
(* not onboarded, and handleOnboardingSubmit of App.tsx.  answers[q + 1]   *)
(* is the answer to question q.                                            *)

\* the scale button the user clicks: the highest value of line 103
ScaleValues == {5}

\* App.tsx lines 376, 402 and 406: Onboarding is mounted
OnboardingMounted == app.me = "new"

\* line 60
selected == quiz.answers[quiz.idx + 1]

\* line 62
canNext == selected >= 1 /\ selected <= 5

\* line 63
allAnswered == \A q \in 1..QuestionCount : quiz.answers[q] >= 1 /\ quiz.answers[q] <= 5

\* the variables the questionnaire buttons leave alone
QuizFrame ==
    UNCHANGED <<events, perDay, dragging, dragPreview, colorVars,
                app, form, editForm, tasks, serverVars>>

\* lines 103-114: a click on the scale button of value v
ScaleClick(v) ==
    /\ OnboardingMounted
    /\ quiz' = [quiz EXCEPT !.answers[quiz.idx + 1] = v]
    /\ lastEvent' = AppEvent("scale", "quiz", 0, None)
    /\ calls' = <<>>
    /\ QuizFrame

\* line 129
BackIdx(n) == Max(0, n - 1)

\* lines 126-133: the Back button
BackClick ==
    /\ OnboardingMounted
    /\ ~(quiz.idx = 0 \/ app.onboardingSaving)
    /\ quiz' = [quiz EXCEPT !.idx = BackIdx(quiz.idx)]
    /\ lastEvent' = AppEvent("back", "quiz", 0, None)
    /\ calls' = <<>>
    /\ QuizFrame

\* faulty variant: Next is enabled on an unanswered question
nextDisabled_NeverUnanswered == app.onboardingSaving

\* line 141
nextDisabled == ~canNext \/ app.onboardingSaving

\* lines 136-144: the Next button
NextClick ==
    /\ OnboardingMounted
    /\ quiz.idx < QuestionCount - 1
    /\ ~nextDisabled
    /\ quiz' = [quiz EXCEPT !.idx = Min(QuestionCount - 1, quiz.idx + 1)]
    /\ lastEvent' = AppEvent("next", "quiz", 0, None)
    /\ calls' = <<>>
    /\ QuizFrame

\* lines 145-153 and 67-70: the Finish button and handleFinish, with
\* handleOnboardingSubmit (App.tsx lines 163-175) up to its first await
FinishClick ==
    /\ OnboardingMounted
    /\ ~(quiz.idx < QuestionCount - 1)
    /\ ~(~allAnswered \/ app.onboardingSaving)
    /\ lastEvent' = AppEvent("finish-click", "onboarding", 0, None)
    /\ IF ~allAnswered
       THEN /\ calls' = <<>>
            /\ UNCHANGED <<app, tasks>>
       ELSE /\ Len(tasks) < MaxTasks
            /\ calls' = << [fn |-> "onSubmit", id |-> 0, answers |-> quiz.answers],
                           Request("submitOnboarding", 0, {"answers"}) >>
            /\ app' = [app EXCEPT !.onboardingSaving = TRUE, !.onboardingError = None]
            /\ tasks' = Append(tasks, Task("onboarding", "submitOnboarding", 0, None, None))
    /\ UNCHANGED <<events, perDay, form, editForm, latest>>
    /\ AppFrame

\* lines 157-171: the Retake Questionnaire button
RetakeClick ==
    /\ OnboardingMounted
    /\ quiz.idx = QuestionCount - 1 /\ ~app.onboardingSaving
    /\ quiz' = [answers |-> [q \in 1..QuestionCount |-> 0], idx |-> 0]
    /\ lastEvent' = AppEvent("retake", "quiz", 0, None)
    /\ calls' = <<>>
    /\ QuizFrame

\* App shows Onboarding: refreshMe has found a user who is not onboarded
OnboardingInit ==
    /\ events = <<>>
    /\ perDay = RenderPerDay(events)
    /\ dragging = None
    /\ dragPreview = None
    /\ lastEvent = NoEvent
    /\ calls = <<>>
    /\ app = [InitialApp EXCEPT !.me = "new"]
    /\ form = InitialForm
    /\ editForm = None
    /\ tasks = <<>>
    /\ server = ServerEvents
    /\ latest = None
    /\ quiz = InitialQuiz
    /\ ColorIdle

OnboardingNext ==
    \/ \E v \in ScaleValues : ScaleClick(v)
    \/ BackClick
    \/ NextClick
    \/ FinishClick
    \/ RetakeClick
    \/ \E i \in 1..MaxTasks : \E outcome \in Outcomes : Settle(i, outcome)

OnboardingSpec == OnboardingInit /\ [][OnboardingNext]_vars

----------------------------------------------------------------------------
(* The whole of App under fair requests: a new user fills in the           *)
(* questionnaire, and once onboarded uses the main screen, where the forms *)
(* submitted are the ones that pass validation (no other form sets a busy  *)
(* flag).  Every request in flight is answered in the end: apiFetch        *)
(* resolves or rejects.                                                    *)

\* App.tsx lines 376 and 402: the main screen is rendered
MainScreen == app.me = "onboarded"

\* the forms submitNewEvent accepts
ValidNewForms == {f \in NewForms : newValidation(f) = <<>>}

LiveNext ==
    \/ MainScreen /\ LoadEvents
    \/ MainScreen /\ HandleSyncGoogleAmong(MaxTasks)
    \/ MainScreen /\ OpenNew
    \/ MainScreen /\ CloseNew
    \/ MainScreen /\ \E f \in ValidNewForms : SubmitNewEvent(f)
    \/ MainScreen /\ \E k \in 1..Len(events) : OpenEdit(k)
    \/ MainScreen /\ CloseEdit
    \/ MainScreen /\ editForm # None /\ SubmitEditEvent(editForm[1])
    \/ MainScreen /\ HandleDeleteEvent(TRUE)
    \/ MainScreen /\ \E k \in 1..Len(events) : \E m \in MoveTargets :
           MoveEvent(events[k].id, m[1], m[2])
    \/ \E v \in ScaleValues : ScaleClick(v)
    \/ BackClick
    \/ NextClick
    \/ FinishClick
    \/ RetakeClick
    \/ \E i \in 1..MaxTasks : \E outcome \in LoadOutcomes : Settle(i, outcome)

\* the request of the i-th suspended handler run is answered and the run
\* resumes; every such step changes tasks
Answered(i) == \E outcome \in LoadOutcomes : SettleRun(i, outcome)

LiveSpec ==
    /\ OnboardingInit
    /\ [][LiveNext]_vars
    /\ \A i \in 1..MaxTasks : WF_tasks(Answered(i))

----------------------------------------------------------------------------
(* Helpers of the layout properties *)

Blocks(n) == perDay[n].positioned

BlockSet(n) == {Blocks(n)[k] : k \in 1..Len(Blocks(n))}

EventSet == {events[k] : k \in 1..Len(events)}

SeqSet(s) == {s[k] : k \in 1..Len(s)}

\* the events the layout of day n sorts, in sorted order
SortedOfDay(n) ==
    sortByStart(inDayOf(DayList(days[n], events), startOfDay(days[n]),
                        addDays(startOfDay(days[n]), 1)))

\* the clusters the outer loop builds from index i on
RECURSIVE ClustersFrom(_, _)
ClustersFrom(sorted, i) ==
    IF i > Len(sorted) THEN <<>>
    ELSE LET j == ScanCluster(sorted, i + 1, sorted[i].end)
         IN  <<SubSeq(sorted, i, j - 1)>> \o ClustersFrom(sorted, NextPass(j))

DayClusters(n) == SeqSet(ClustersFrom(SortedOfDay(n), 1))

AssignedOf(cluster) == SeqSet(AssignColumns(cluster, 1, <<>>, <<>>).assigned)

ClusterColCount(cluster) == ColCountOf(AssignColumns(cluster, 1, <<>>, <<>>).cols)

\* the half-open ranges [a.start, a.end) and [b.start, b.end) share an instant
Overlap(a, b) == a.start < b.end /\ b.start < a.end

\* the number of events of the cluster active at instant t
ActiveAt(cluster, t) ==
    Cardinality({k \in 1..Len(cluster) : cluster[k].start <= t /\ t < cluster[k].end})

\* the largest number of events of the cluster active at one instant (the
\* number of active events only grows at a start)
MaxActive(cluster) ==
    LET counts == {ActiveAt(cluster, cluster[k].start) : k \in 1..Len(cluster)}
    IN  CHOOSE m \in counts : \A c \in counts : c <= m

ValidRange(ev) == ~isNaN(ev.start) /\ ~isNaN(ev.end) /\ ev.start < ev.end

DayNums == 1..Len(days)

\* the cluster of day n that holds the event
ClusterOf(n, ev) == CHOOSE cl \in DayClusters(n) : ev \in SeqSet(cl)

SameCluster(n, e1, e2) ==
    \E cl \in DayClusters(n) : e1 \in SeqSet(cl) /\ e2 \in SeqSet(cl)

----------------------------------------------------------------------------
(* Claims on computePositionsForDay, checked under LayoutSpec *)

\* C1: in the blocks of every day, two different events of one cluster whose
\* ranges [start, end) overlap have different colIndex values.
C1_OverlapDistinctColumns ==
    \A n \in DayNums : \A a, b \in BlockSet(n) :
        (a.ev.id # b.ev.id /\ SameCluster(n, a.ev, b.ev) /\ Overlap(a.ev, b.ev))
            => a.colIndex # b.colIndex

\* C1 witness: a day shows two overlapping events of one cluster, side by side
C1_Witness ==
    \E n \in DayNums : \E a, b \in BlockSet(n) :
        /\ a.ev.id # b.ev.id
        /\ SameCluster(n, a.ev, b.ev)
        /\ Overlap(a.ev, b.ev)
        /\ a.colIndex # b.colIndex

\* C2: for every cluster of every day, the number of columns the greedy
\* assignment ends with, which is the colCount of the cluster's blocks, is
\* the largest number of the cluster's events active at one instant.
C2_ColCountIsMaxActive ==
    \A n \in DayNums :
        /\ \A cl \in DayClusters(n) : ClusterColCount(cl) = MaxActive(cl)
        /\ \A b \in BlockSet(n) : b.colCount = MaxActive(ClusterOf(n, b.ev))

\* C2 witness: a cluster of three events that two columns suffice for, a
\* column being reused by an event that starts when its last event ends
C2_Witness ==
    \E n \in DayNums : \E cl \in DayClusters(n) :
        /\ Len(cl) = 3
        /\ MaxActive(cl) = 2
        /\ \E b \in BlockSet(n) : b.ev \in SeqSet(cl) /\ b.colCount = 2

\* the event must show on day n: its range is valid, and its range clipped
\* to the day shares time with the visible window of the day
ShouldShow(ev, n) ==
    /\ ValidRange(ev)
    /\ LET dayStart == startOfDay(days[n])
           dayEnd == addDays(dayStart, 1)
       IN  /\ ev.start < dayEnd /\ ev.end > dayStart
           /\ Max(ev.start, dayStart) < dayStart + DAY_END_HOUR * 60
           /\ Min(ev.end, dayEnd) > dayStart + DAY_START_HOUR * 60

BlocksFor(n, ev) == {k \in 1..Len(Blocks(n)) : Blocks(n)[k].ev.id = ev.id}

\* C3 (as claimed): on every day, an event has exactly one block when it has
\* a valid range that, clipped to the day, lies at least partly inside the
\* visible window (its clipped end may be the next midnight), and no block
\* otherwise.
C3_OneBlockPerVisibleEvent ==
    \A n \in DayNums : \A ev \in EventSet :
        Cardinality(BlocksFor(n, ev)) = (IF ShouldShow(ev, n) THEN 1 ELSE 0)

\* C4 (as claimed): every block lies inside the grid:
\* topPx >= 0 and topPx + heightPx <= (endHour - startHour) * 60 * pxPerMinute.
C4_BlocksInsideGrid ==
    \A n \in DayNums : \A b \in BlockSet(n) :
        b.topPx >= 0 /\ b.topPx + b.heightPx <= gridHeight

\* the event starts on day n and ends after the midnight that ends day n
CrossesMidnight(ev, n) ==
    /\ ValidRange(ev)
    /\ startOfDay(ev.start) = startOfDay(days[n])
    /\ ev.end > addDays(startOfDay(days[n]), 1)

\* C5 (as claimed): an event that crosses the midnight between day n and day
\* n + 1 has, on day n, a block exactly when [start, 24:00) meets the visible
\* window and, on day n + 1, a block exactly when [00:00, end) meets it; each
\* block starts where the clipped range enters the window.
C5_MidnightEventOnBothDays ==
    \A n \in DayNums : \A ev \in EventSet :
        (CrossesMidnight(ev, n) /\ n + 1 \in DayNums) =>
            LET vs == DAY_START_HOUR * 60
                ve == DAY_END_HOUR * 60
                m == minutesFromMidnight(ev.start)
                endMin == Min(ev.end - days[n + 1], MinutesPerDay)
            IN  /\ (m < ve) <=> (BlocksFor(n, ev) # {})
                /\ \A k \in BlocksFor(n, ev) :
                       Blocks(n)[k].topPx = (Max(m, vs) - vs) * PX_PER_MINUTE
                /\ (endMin > vs) <=> (BlocksFor(n + 1, ev) # {})
                /\ \A k \in BlocksFor(n + 1, ev) : Blocks(n + 1)[k].topPx = 0

\* the distinct columns the assignment of the cluster used
ColumnsUsed(cluster) == {a.colIndex : a \in AssignedOf(cluster)}

\* C6: the blocks of one cluster all carry the same colCount: the number of
\* columns the cluster's assignment used, columns that only hold events
\* without a block included.
C6_ClusterSharesColCount ==
    \A n \in DayNums : \A b \in BlockSet(n) :
        /\ b.colCount = Cardinality(ColumnsUsed(ClusterOf(n, b.ev)))
        /\ \A c \in BlockSet(n) :
               SameCluster(n, b.ev, c.ev) => b.colCount = c.colCount

\* C6 witness: a cluster with two columns of which one holds only an event
\* that has no block
C6_Witness ==
    \E n \in DayNums : \E b \in BlockSet(n) :
        /\ b.colCount = 2
        /\ \A c \in BlockSet(n) : SameCluster(n, b.ev, c.ev) => c.colIndex = b.colIndex
        /\ Cardinality(ColumnsUsed(ClusterOf(n, b.ev))) = 2

\* C7: events with an unparsable start or end, or with end <= start, change
\* nothing: the blocks of every day are those of the list without them.
C7_MalformedEventsIgnored ==
    /\ perDay = RenderPerDay(SelectSeq(events, ValidRange))
    /\ \A n \in DayNums : \A ev \in EventSet :
           ~ValidRange(ev) =>
               /\ BlocksFor(n, ev) = {}
               /\ \A cl \in DayClusters(n) : ev \notin SeqSet(cl)

\* C7 witness: an unparsable event and an inverted event lie in the list
\* between shown events
C7_Witness ==
    /\ \E ev \in EventSet : isNaN(ev.start) \/ isNaN(ev.end)
    /\ \E ev \in EventSet : ~isNaN(ev.start) /\ ~isNaN(ev.end) /\ ev.end <= ev.start
    /\ \E n \in DayNums : Blocks(n) # <<>>

\* the clusters of day n that hold the event, by position in the outer loop
ClustersHolding(n, ev) ==
    LET clusters == ClustersFrom(SortedOfDay(n), 1)
    IN  {c \in 1..Len(clusters) : ev \in SeqSet(clusters[c])}

\* C17: the layout of every day ends: each pass of the outer scan ends at an
\* index past its first event and at most one past the list; every event
\* that passed the filter lies in exactly one cluster; no cluster is empty
\* and every block shows a filtered event, each event at most once.
C17_ScanConsumesAndPartitions ==
    \A n \in DayNums :
        LET sorted == SortedOfDay(n)
            clusters == ClustersFrom(sorted, 1)
        IN  /\ \A i \in 1..Len(sorted) :
                   LET j == ScanCluster(sorted, i + 1, sorted[i].end)
                   IN  i < j /\ j <= Len(sorted) + 1
            /\ \A k \in 1..Len(sorted) :
                   Cardinality(ClustersHolding(n, sorted[k])) = 1
            /\ \A c \in 1..Len(clusters) : Len(clusters[c]) >= 1
            /\ \A b \in BlockSet(n) : b.ev \in SeqSet(sorted)
            /\ \A k \in 1..Len(sorted) : Cardinality(BlocksFor(n, sorted[k])) <= 1

\* C17 witness: a day of three filtered events, laid out by two passes, the
\* first of which consumes two events
C17_Witness ==
    \E n \in DayNums :
        LET sorted == SortedOfDay(n)
            clusters == ClustersFrom(sorted, 1)
        IN  /\ Len(sorted) = 3
            /\ Len(clusters) = 2
            /\ Len(clusters[1]) = 2
            /\ Len(Blocks(n)) = 3

\* a chain of pairwise overlaps leads from a to b through events of S
RECURSIVE Chain(_, _, _)
Chain(a, b, S) ==
    \/ a = b
    \/ \E c \in S : Overlap(a, c) /\ Chain(c, b, S \ {c})

\* C21: on every day, two filtered events are in the same cluster exactly
\* when a chain of pairwise overlaps of filtered events links them, so the
\* clusters are the maximal chained sets; two events of which one ends
\* exactly when the other starts do not overlap and are linked only through
\* other events.
C21_ClustersAreOverlapComponents ==
    \A n \in DayNums :
        LET S == SeqSet(SortedOfDay(n))
        IN  \A a, b \in S : SameCluster(n, a, b) <=> Chain(a, b, S \ {a})

\* C21 witness: two events that only touch share a cluster because a third
\* event overlaps both
C21_Witness ==
    \E n \in DayNums :
        LET S == SeqSet(SortedOfDay(n))
        IN  \E a, b, c \in S :
                /\ a.end = b.start
                /\ ~Overlap(a, b)
                /\ Overlap(a, c) /\ Overlap(c, b)
                /\ SameCluster(n, a, b)

\* the column of each event of the cluster, in the cluster's order
AssignedSeq(cluster) == AssignColumns(cluster, 1, <<>>, <<>>).assigned

\* the columns that hold an event before the k-th of the assignment
ColumnsBefore(asg, k) == {asg[i].colIndex : i \in 1..(k - 1)}

\* the end of the last event placed in column c before the k-th event
LastEndIn(asg, k, c) ==
    LET placed == {i \in 1..(k - 1) : asg[i].colIndex = c}
    IN  asg[CHOOSE i \in placed : \A h \in placed : h <= i].ev.end

\* the columns the k-th event may reuse
Reusable(asg, k) ==
    {c \in ColumnsBefore(asg, k) : LastEndIn(asg, k, c) <= asg[k].ev.start}

\* the assignment follows the first-fit rule
FirstFit(asg) ==
    \A k \in 1..Len(asg) :
        IF Reusable(asg, k) # {}
        THEN \A c \in Reusable(asg, k) : asg[k].colIndex <= c
        ELSE asg[k].colIndex = Cardinality(ColumnsBefore(asg, k))

\* the example of three events: 09:00-10:00, 09:30-10:30, 10:15-11:00
ExampleABC ==
    << [id |-> 1, start |-> 540, end |-> 600, source |-> "local"],
       [id |-> 2, start |-> 570, end |-> 630, source |-> "local"],
       [id |-> 3, start |-> 615, end |-> 660, source |-> "local"] >>

SharesWidth(n, a, b) ==
    \/ SameCluster(n, a.ev, b.ev) /\ a.colIndex = b.colIndex
    \/ ~SameCluster(n, a.ev, b.ev)

\* the pixel ranges [topPx, topPx + heightPx) of a and b are disjoint
DisjointHeights(a, b) ==
    \/ a.topPx + a.heightPx <= b.topPx
    \/ b.topPx + b.heightPx <= a.topPx

\* C23: on every day, two blocks of different events that share a part of
\* the column's width have disjoint pixel ranges [topPx, topPx + heightPx),
\* whatever their heights.
C23_BlocksNeverCoverEachOther ==
    \A n \in DayNums : \A a, b \in BlockSet(n) :
        (a.ev.id # b.ev.id /\ SharesWidth(n, a, b)) => DisjointHeights(a, b)

----------------------------------------------------------------------------
(* Claims on the drag gesture, checked under DragSpec *)

CallsOf(fn) == {k \in 1..Len(calls) : calls[k].fn = fn}

EventWithId(id) == CHOOSE ev \in EventSet : ev.id = id

\* C8: the candidate of every pointer position and dragged event is valid
\* exactly when its start is at or after startHour * 60 and its start plus
\* its duration (its end) is at or before endHour * 60, in minutes of its day.
C8_ValidIffInsideWindow ==
    dragPreview # None =>
        LET p == dragPreview[1]
            snappedStart == p.start - startOfDay(p.day)
            duration == p.end - p.start
        IN  p.valid <=> (/\ snappedStart >= DAY_START_HOUR * 60
                         /\ snappedStart + duration <= DAY_END_HOUR * 60)

\* C8 witness: a candidate that ends exactly at the end of the window
C8_Witness ==
    /\ lastEvent.type = "dragOver"
    /\ dragPreview # None
    /\ dragPreview[1].valid
    /\ dragPreview[1].end - startOfDay(dragPreview[1].day) = DAY_END_HOUR * 60

\* C9: a step calls onMoveEvent only when it is a drop that finds a dragged
\* event and a valid candidate, and it passes that event and that candidate;
\* a drop that finds an invalid candidate calls nothing.
C9_MoveOnlyOnValidDrop ==
    [][ /\ (CallsOf("onMoveEvent")' # {}) =>
               /\ lastEvent'.type = "drop"
               /\ dragging # None /\ dragPreview # None
               /\ dragPreview[1].valid
               /\ \A k \in CallsOf("onMoveEvent")' :
                      /\ calls'[k].id = dragging[1].id
                      /\ calls'[k].start = dragPreview[1].start
                      /\ calls'[k].end = dragPreview[1].end
        /\ (lastEvent'.type = "drop" /\ dragPreview # None /\ ~dragPreview[1].valid)
               => calls' = <<>>
      ]_vars

\* C9 witness: a drop has just committed a move
C9_Witness ==
    /\ lastEvent.type = "drop"
    /\ CallsOf("onMoveEvent") # {}

\* C10: a google event is never the dragged event, and no step issues an
\* onMoveEvent call or an updateEvent request for a google event.
C10_ReadOnlyNeverMoved ==
    /\ dragging # None => dragging[1].source # "google"
    /\ \A k \in CallsOf("onMoveEvent") \cup CallsOf("updateEvent") :
           EventWithId(calls[k].id).source # "google"

\* C10 witness: a dragStart on the block of a google event was ignored while
\* a local event stayed the dragged one
C10_Witness ==
    /\ lastEvent.type = "dragStart"
    /\ EventWithId(lastEvent.id).source = "google"
    /\ dragging # None

\* the minutes from the start of the window a pointer at height y stands for
\* (line 312), kept inside the window
PointerMinutes(y) == clamp(RoundDiv(y, PX_PER_MINUTE), 0, totalMinutes)

\* the multiple of 15 nearest to m, a remainder of 7 or less rounding down
\* and one of 8 or more rounding up
NearestQuarter(m) ==
    IF m % 15 <= 7 THEN m - (m % 15) ELSE m - (m % 15) + 15

\* C12: right after a dragOver with a dragged event, the candidate's end
\* minus its start is the dragged event's duration in minutes when that is
\* at least 15, and 15 otherwise, whatever the pointer position.
C12_CandidateKeepsDuration ==
    (lastEvent.type = "dragOver" /\ dragging # None) =>
        /\ dragPreview # None
        /\ LET original == dragging[1].end - dragging[1].start
               p == dragPreview[1]
           IN  p.end - p.start = IF original >= 15 THEN original ELSE 15

\* C12 witness: the candidate of a 5-minute event lasts 15 minutes
C12_Witness ==
    /\ lastEvent.type = "dragOver"
    /\ dragging # None
    /\ dragging[1].end - dragging[1].start = 5
    /\ dragPreview # None
    /\ dragPreview[1].end - dragPreview[1].start = 15

\* C13: right after a dragOver with a dragged event, the candidate's snapped
\* start is the multiple of 15 nearest to startHour * 60 + the clamped
\* pointer minutes (remainder 7 down, remainder 8 up), hence a multiple of
\* 15 inside [startHour * 60, endHour * 60].
C13_SnapNearestQuarter ==
    (lastEvent.type = "dragOver" /\ dragging # None) =>
        /\ dragPreview # None
        /\ LET p == dragPreview[1]
               snapped == p.start - startOfDay(lastEvent.day)
               m == DAY_START_HOUR * 60 + PointerMinutes(lastEvent.y)
           IN  /\ snapped = NearestQuarter(m)
               /\ snapped % 15 = 0
               /\ DAY_START_HOUR * 60 <= snapped
               /\ snapped <= DAY_END_HOUR * 60

\* C13 witness: a pointer 8 minutes into the window snaps up to 07:15
C13_Witness ==
    /\ lastEvent.type = "dragOver"
    /\ dragging # None
    /\ PointerMinutes(lastEvent.y) = 8
    /\ dragPreview # None
    /\ dragPreview[1].start - startOfDay(lastEvent.day) = DAY_START_HOUR * 60 + 15

\* C14: a click on empty space of a day column proposes exactly one slot,
\* whose start is the drag candidate's snapped start for the same height and
\* whose end is 30 minutes later; a click on an event block proposes none.
C14_ClickProposesSnappedSlot ==
    lastEvent.type = "click" =>
        IF lastEvent.id = 0
        THEN /\ Len(calls) = 1
             /\ calls[1].fn = "onCreateAt"
             /\ calls[1].start = startOfDay(lastEvent.day) + snappedFor(lastEvent.y)
             /\ calls[1].end = calls[1].start + 30
        ELSE CallsOf("onCreateAt") = {}

\* C14 witness: a click 8 minutes into the window proposes 07:15 - 07:45
C14_Witness ==
    /\ lastEvent.type = "click"
    /\ lastEvent.id = 0
    /\ PointerMinutes(lastEvent.y) = 8
    /\ CallsOf("onCreateAt") # {}
    /\ calls[1].start - startOfDay(lastEvent.day) = DAY_START_HOUR * 60 + 15

\* C15: a candidate whose snapped start plus duration lies past
\* endHour * 60 reports valid = false and still carries the rectangle of
\* that start and duration: topPx is the start's offset into the window and
\* heightPx the duration, both in pixels, the height at least 12 px.
C15_InvalidCandidateKeepsRectangle ==
    dragPreview # None =>
        LET p == dragPreview[1]
            snapped == p.start - startOfDay(p.day)
            duration == p.end - p.start
        IN  snapped + duration > DAY_END_HOUR * 60 =>
                /\ ~p.valid
                /\ p.topPx = (snapped - DAY_START_HOUR * 60) * PX_PER_MINUTE
                /\ p.heightPx = Max(MinHeightPx, duration * PX_PER_MINUTE)

\* C15 witness: a 45-minute event dragged to 21:30 would end at 22:15
C15_Witness ==
    /\ lastEvent.type = "dragOver"
    /\ dragPreview # None
    /\ dragPreview[1].end - dragPreview[1].start = 45
    /\ dragPreview[1].end - startOfDay(dragPreview[1].day) > DAY_END_HOUR * 60
    /\ ~dragPreview[1].valid
    /\ dragPreview[1].topPx < gridHeight

\* C18: a dragEnd clears the dragged event and the candidate and calls
\* nothing; while no event is dragged there is no candidate, a dragOver
\* computes none, a drop calls nothing, and only a dragStart ends that.
C18_DragEndDiscardsGesture ==
    [][ /\ lastEvent'.type = "dragEnd" =>
               (dragging' = None /\ dragPreview' = None /\ calls' = <<>>)
        /\ dragging = None =>
               /\ dragPreview = None
               /\ lastEvent'.type = "dragOver" => dragPreview' = None
               /\ lastEvent'.type = "drop" => calls' = <<>>
               /\ dragging' # None => lastEvent'.type = "dragStart"
      ]_vars

\* C18 witness: a dragEnd has just run and left nothing behind
C18_Witness ==
    /\ lastEvent.type = "dragEnd"
    /\ dragging = None
    /\ dragPreview = None
    /\ calls = <<>>

----------------------------------------------------------------------------
(* Claims on colorForScore, checked under ColorSpec *)

\* v is num / den rounded to the nearest integer, a half rounding up
IsRounded(v, num, den) == 2 * num - den < 2 * den * v /\ 2 * den * v <= 2 * num + den

\* the three numbers of a colour string
TripleOf(css) == <<css[2], css[3], css[4]>>

\* C19: the colour of a finite score s is (180,50,60) for s <= -15,
\* (35,45,65) for s = 0, (35,160,110) for s >= 15, the channel-wise rounded
\* midpoint of (35,45,65) and (35,160,110) for s = 7.5, and between these
\* the rounded linear interpolation, from red to neutral on [-15, 0] and
\* from neutral to green on [0, 15]; a non-finite score gets (35,45,65).
C19_ColorIsClampedGradient ==
    bg # None =>
        LET c == TripleOf(bg[1])
            q == score.q
            lo == <<180, 50, 60>>
            zero == <<35, 45, 65>>
            hi == <<35, 160, 110>>
        IN  /\ bg[1][1] = "rgb("
            /\ IF score.kind # "finite" THEN c = zero
               ELSE /\ 4 * (-15) >= q => c = lo
                    /\ q = 0 => c = zero
                    /\ q >= 4 * 15 => c = hi
                    /\ 2 * q = 15 * 4 =>
                           \A i \in 1..3 : IsRounded(c[i], zero[i] + hi[i], 2)
                    /\ (4 * (-15) < q /\ q < 0) =>
                           \A i \in 1..3 :
                               IsRounded(c[i], lo[i] * 60 + (zero[i] - lo[i]) * (q + 60), 60)
                    /\ (0 < q /\ q < 4 * 15) =>
                           \A i \in 1..3 :
                               IsRounded(c[i], zero[i] * 60 + (hi[i] - zero[i]) * q, 60)

\* C19 witness: score 7.5 is painted (35, 103, 88)
C19_Witness ==
    /\ score = Finite(30)
    /\ bg = << <<"rgb(", 35, 103, 88>> >>

----------------------------------------------------------------------------
(* Claims on the handlers of App, checked under AppSpec *)

\* the error state that shows a failure of handler h
ErrorStateOf(h) ==
    CASE h = "create" -> app.newError
      [] h \in {"edit", "delete"} -> app.editError
      [] h = "move" -> app.eventsError

\* the message handler h shows for an error that carries none
DefaultMessage(h) ==
    CASE h = "create" -> "Failed to create event."
      [] h = "edit" -> "Failed to update event."
      [] h = "delete" -> "Failed to delete event."
      [] h = "move" -> "Failed to move event."

\* the source of the server's event with the id
SourceOfId(id) == (CHOOSE ev \in SeqSet(ServerEvents) : ev.id = id).source

\* C11: when a run of submitNewEvent, submitEditEvent, handleDeleteEvent or
\* handleMoveEvent whose createEvent / updateEvent / updateGoogleOverride /
\* deleteEvent request rejected has just finished, the matching error state
\* (newError, editError, eventsError) holds the message of that rejection,
\* or the handler's default message when the rejection carries none.
C11_FailedMutationSurfaced ==
    ( /\ lastEvent.type = "finish"
      /\ lastEvent.h \in {"create", "edit", "delete", "move"}
      /\ lastEvent.failed # None )
        => ErrorStateOf(lastEvent.h)
               = <<messageOr(lastEvent.failed[1], DefaultMessage(lastEvent.h))>>

\* C20: no step sends updateEvent or deleteEvent for a google event; a
\* submit of the edit form of a google event sends exactly one request,
\* updateGoogleOverride for that event with the fields event_type,
\* attendee_count and has_video; a delete of it sends nothing and leaves an
\* error message in editError.
C20_GoogleEditOnlyOverrides ==
    /\ \A k \in 1..Len(calls) :
           calls[k].fn \in {"updateEvent", "deleteEvent"}
               => SourceOfId(calls[k].id) # "google"
    /\ (lastEvent.type = "submitEdit" /\ SourceOfId(lastEvent.id) = "google") =>
           /\ Len(calls) = 1
           /\ calls[1].fn = "updateGoogleOverride"
           /\ calls[1].id = lastEvent.id
           /\ calls[1].fields = {"event_type", "attendee_count", "has_video"}
    /\ (lastEvent.type = "deleteEvent" /\ SourceOfId(lastEvent.id) = "google") =>
           /\ calls = <<>>
           /\ app.editError # None
           /\ ~app.editDeleting

\* C20 witness: the edit form of the google event has just been submitted
\* and its overrides are on their way
C20_Witness ==
    /\ lastEvent.type = "submitEdit"
    /\ SourceOfId(lastEvent.id) = "google"
    /\ CallsOf("updateGoogleOverride") # {}
    /\ app.editSaving

----------------------------------------------------------------------------
(* The minimum height, checked under DragSpec *)

\* the minutes of the window that the event covers on day n, by its times
TopMinOf(ev, n) ==
    clamp(Max(ev.start, days[n]) % MinutesPerDay, DAY_START_HOUR * 60, DAY_END_HOUR * 60)

BotMinOf(ev, n) ==
    clamp(Min(ev.end, days[n] + MinutesPerDay) % MinutesPerDay,
          DAY_START_HOUR * 60, DAY_END_HOUR * 60)

\* C24: every block has the topPx of its event's clipped start, the column
\* of its event in the cluster's assignment and the cluster's number of
\* columns, none of which depends on a height, and its heightPx alone is
\* raised to 12 px; an event has a block whatever its height would be; a
\* candidate's start, end and valid flag follow from the pointer and the
\* dragged event's times alone.
C24_FloorOnlyRaisesHeight ==
    /\ \A n \in DayNums :
           /\ \A b \in BlockSet(n) :
                  LET raw == (BotMinOf(b.ev, n) - TopMinOf(b.ev, n)) * PX_PER_MINUTE
                  IN  /\ b.topPx = (TopMinOf(b.ev, n) - DAY_START_HOUR * 60) * PX_PER_MINUTE
                      /\ b.heightPx = IF raw < 120 THEN 120 ELSE raw
                      /\ \E a \in AssignedOf(ClusterOf(n, b.ev)) :
                             a.ev = b.ev /\ a.colIndex = b.colIndex
                      /\ b.colCount = Cardinality(ColumnsUsed(ClusterOf(n, b.ev)))
           /\ \A ev \in SeqSet(SortedOfDay(n)) :
                  (BlocksFor(n, ev) # {}) <=>
                      (/\ BotMinOf(ev, n) > DAY_START_HOUR * 60
                       /\ TopMinOf(ev, n) < DAY_END_HOUR * 60)
    /\ (lastEvent.type = "dragOver" /\ dragging # None) =>
           LET p == dragPreview[1]
               original == dragging[1].end - dragging[1].start
               snapped == NearestQuarter(DAY_START_HOUR * 60 + PointerMinutes(lastEvent.y))
           IN  /\ p.start = startOfDay(lastEvent.day) + snapped
               /\ p.end = p.start + (IF original >= 15 THEN original ELSE 15)
               /\ p.valid <=> (snapped >= DAY_START_HOUR * 60
                               /\ snapped + (p.end - p.start) <= DAY_END_HOUR * 60)

\* C24 witness: the 5-minute event has a block of 12 px that starts at the
\* pixel of its start, and it is being dragged with a candidate of 15 minutes
C24_Witness ==
    /\ \E n \in DayNums : \E b \in BlockSet(n) :
           /\ b.ev.end - b.ev.start = 5
           /\ b.heightPx = MinHeightPx
           /\ b.topPx = (b.ev.start - days[n] - DAY_START_HOUR * 60) * PX_PER_MINUTE
    /\ lastEvent.type = "dragOver"
    /\ dragging # None
    /\ dragging[1].end - dragging[1].start = 5
    /\ dragPreview[1].end - dragPreview[1].start = 15

----------------------------------------------------------------------------
(* Validation of the two forms, checked under AppSpec *)

\* the form has a blank title, lacks a time, or ends no later than it starts
BadForm(f) ==
    \/ \A k \in 1..Len(f.title) : f.title[k] = " "
    \/ f.startLocal = <<>>
    \/ f.endLocal = <<>>
    \/ (f.startLocal # <<>> /\ f.endLocal # <<>> /\ f.endLocal[1] <= f.startLocal[1])

\* C25: right after submitNewEvent, or submitEditEvent for a local event, ran
\* on a form with a blank title, a missing time or end <= start, no request
\* was sent, no handler run was suspended, the modal is open, its error
\* message is set and its saving flag is false.
C25_InvalidFormSendsNothing ==
    /\ (lastEvent.type = "submitNew" /\ BadForm(form)) =>
           /\ calls = <<>>
           /\ \A i \in 1..Len(tasks) : tasks[i].h # "create"
           /\ app.showNew
           /\ app.newError # None
           /\ ~app.newSaving
    /\ (lastEvent.type = "submitEdit" /\ editForm[1].source = "local"
            /\ BadForm(editForm[1])) =>
           /\ calls = <<>>
           /\ \A i \in 1..Len(tasks) : tasks[i].h # "edit"
           /\ app.showEdit
           /\ app.editError # None
           /\ ~app.editSaving

\* C25 witness: the edit form of the local event was submitted with its end
\* set to its start and was refused
C25_Witness ==
    /\ lastEvent.type = "submitEdit"
    /\ editForm[1].source = "local"
    /\ editForm[1].endLocal = editForm[1].startLocal
    /\ app.editError = <<"End must be after start.">>
    /\ app.showEdit
    /\ calls = <<>>

----------------------------------------------------------------------------
(* What a drop commits, checked under DragSpec *)

\* C26 (as claimed): in every step in which the drop on a day column commits
\* a move, the committed id is that of the dragged event, the committed range
\* lasts as long as that event (at least 15 minutes), and it starts on the
\* day of the column that received the drop.
C26_DropCommitsForDraggedOnColumn ==
    [][ (lastEvent'.type = "drop" /\ calls' # <<>>) =>
            /\ calls'[1].fn = "onMoveEvent"
            /\ calls'[1].id = dragging[1].id
            /\ calls'[1].end - calls'[1].start
                   = Max(MinDurMin, dragging[1].end - dragging[1].start)
            /\ startOfDay(calls'[1].start) = lastEvent'.day ]_vars

----------------------------------------------------------------------------
(* Overlapping loads, checked under LoadSpec *)

\* handler runs that have a request of loadEvents, handleSyncGoogle or
\* handleMoveEvent in flight
LoadRuns == {i \in 1..Len(tasks) : tasks[i].h \in {"load", "sync", "move"}}

\* C27 (as claimed): once every handler run has completed, the displayed
\* list is the answer to the getEvents request issued last: the list the
\* backend answered it with, or the empty list with an error message when a
\* request was rejected.
C27_LastLoadWins ==
    (tasks = <<>> /\ latest # None) =>
        \/ events = latest[1]
        \/ events = <<>> /\ app.eventsError # None

\* C28 (as claimed): loadingEvents is true whenever a request of loadEvents,
\* handleSyncGoogle or handleMoveEvent has not yet completed.
C28_LoadingWhileRequestInFlight ==
    LoadRuns # {} => app.loadingEvents

----------------------------------------------------------------------------
(* The questionnaire, checked under OnboardingSpec *)

\* C29: idx is one of 0..14 and every question before idx has an answer in
\* 1..5; every call of onSubmit hands over 15 answers that are all in 1..5.
C29_QuizAnsweredUpToIdx ==
    /\ quiz.idx \in 0..14
    /\ \A q \in 0..(quiz.idx - 1) : quiz.answers[q + 1] \in 1..5
    /\ \A k \in CallsOf("onSubmit") :
           /\ DOMAIN calls[k].answers = 1..15
           /\ \A q \in 1..15 : calls[k].answers[q] \in 1..5

\* C29 witness: Finish has just handed the answers to onSubmit on the last
\* question
C29_Witness ==
    /\ CallsOf("onSubmit") # {}
    /\ quiz.idx = 14
    /\ app.onboardingSaving

----------------------------------------------------------------------------
(* Busy flags, checked under LiveSpec *)

\* C30: each busy flag is false again and again, so that a flag a handler
\* has set to true is false at some later time; and a closeEdit that runs
\* while editSaving or editDeleting is true changes neither the flags and
\* messages of App nor the edit form.
C30_BusyFlagsClear ==
    /\ []<>(~app.newSaving)
    /\ []<>(~app.editSaving)
    /\ []<>(~app.editDeleting)
    /\ []<>(~app.onboardingSaving)
    /\ []<>(~app.loadingEvents)
    /\ [][ (lastEvent'.type = "closeEdit" /\ (app.editSaving \/ app.editDeleting)) =>
               (app' = app /\ app.showEdit /\ editForm' = editForm /\ editForm # None) ]_vars

\* C30 witness: a deleteEvent request has been rejected and handleDeleteEvent
\* has ended with editDeleting false and the edit modal still open
C30_Witness ==
    /\ lastEvent.type = "finish"
    /\ lastEvent.h = "delete"
    /\ lastEvent.failed # None
    /\ ~app.editDeleting
    /\ app.showEdit
    /\ tasks = <<>>

====
